---- MODULE Spec2Model ----
(***************************************************************************)
(* Model of the daisyui theme extractor (src/src/index.ts): the run of     *)
(* main() over the explicit theme list and the parsed CSS, and the         *)
(* candidate-by-candidate module resolution of extractThemeData().         *)
(*                                                                         *)
(* Strings that the code inspects character by character (style keys and   *)
(* style values) are sequences of one-character strings.  Theme names are  *)
(* only compared for equality and are TLA+ strings.  A JavaScript object   *)
(* is a sequence of <<key, value>> pairs with distinct keys, in insertion  *)
(* order.  The CSS text scanned for reference blocks is a sequence of      *)
(* tokens, each token the piece of text it stands for.                     *)
(***************************************************************************)
EXTENDS Integers, Sequences, FiniteSets, TLC

\* ------------------------------------------------------------------ bounds
\* items of the --themes value
MaxExplicit == 2
\* names written in reference blocks of the CSS file
MaxRefs == 2
\* inline blocks of the CSS file
MaxBlocks == 2
\* addBase calls made by one theme function
MaxAddBase == 2
\* candidate files present on disk for one theme
MaxExisting == 2
\* properties of a style object whose conversion is examined
MaxStyleKeys == 2
\* items of the themes: value of a reference block
MaxItems == 2
\* lines of the body of an inline block
MaxLines == 3

\* ------------------------------------------------------- small input sets
Names == {"a", "b", "c"}
ExplicitItems == {"a", "b", ""}
RefNames == {"a", "b"}
Dirs == {"cwd", "parent", "global"}
Layouts == 1..4

\* --------------------------------------------------------- string helpers
StartsWith(s, p) ==
  /\ Len(s) >= Len(p)
  /\ SubSeq(s, 1, Len(p)) = p

OccursAt(s, p, i) ==
  /\ i + Len(p) - 1 <= Len(s)
  /\ SubSeq(s, i, i + Len(p) - 1) = p

Includes(s, p) == \E i \in 1..(Len(s) + 1) : OccursAt(s, p, i)

\* String.prototype.replace(pattern, "") with a string pattern: the first
\* occurrence is removed.
ReplaceFirst(s, p) ==
  IF ~Includes(s, p) THEN s
  ELSE LET i == CHOOSE j \in 1..(Len(s) + 1) :
                  /\ OccursAt(s, p, j)
                  /\ \A k \in 1..(j - 1) : ~OccursAt(s, p, k)
       IN SubSeq(s, 1, i - 1) \o SubSeq(s, i + Len(p), Len(s))

\* [...new Set(list)]: first occurrences, in order.
RECURSIVE Dedup(_)
Dedup(s) ==
  IF s = <<>> THEN <<>>
  ELSE LET front == Dedup(SubSeq(s, 1, Len(s) - 1))
           last  == s[Len(s)]
       IN IF \E i \in 1..Len(front) : front[i] = last
          THEN front
          ELSE Append(front, last)

Range(s) == {s[i] : i \in 1..Len(s)}

NoDup(s) == \A i, j \in 1..Len(s) : s[i] = s[j] => i = j

\* ------------------------------------------------------ JavaScript objects
Keys(obj) == {obj[i][1] : i \in 1..Len(obj)}

Has(obj, k) == k \in Keys(obj)

Get(obj, k) == obj[CHOOSE i \in 1..Len(obj) : obj[i][1] = k][2]

\* obj[k] = v: an existing key keeps its position, a new key is appended.
Put(obj, k, v) ==
  IF Has(obj, k)
  THEN [i \in 1..Len(obj) |-> IF obj[i][1] = k THEN <<k, v>> ELSE obj[i]]
  ELSE Append(obj, <<k, v>>)

\* the theme names that are canonical array indices, with their value; -1
\* for any other name
ArrayIndex(name) ==
  IF name = "2" THEN 2 ELSE IF name = "10" THEN 10 ELSE -1

\* result[name] = v on a plain object whose keys are theme names: own keys
\* are enumerated with the array indices first, in ascending numeric
\* order, and then the other keys in insertion order.
Assign(obj, name, v) ==
  IF Has(obj, name) \/ ArrayIndex(name) < 0 THEN Put(obj, name, v)
  ELSE LET before == SelectSeq(obj, LAMBDA e :
                       /\ ArrayIndex(e[1]) >= 0
                       /\ ArrayIndex(e[1]) < ArrayIndex(name))
           after == SelectSeq(obj, LAMBDA e :
                      \/ ArrayIndex(e[1]) < 0
                      \/ ArrayIndex(e[1]) > ArrayIndex(name))
       IN before \o << <<name, v>> >> \o after

\* a merge in which the accumulator wins over the new object
RECURSIVE SpreadKeepsFirst(_, _)
SpreadKeepsFirst(acc, base) ==
  IF base = <<>> THEN acc
  ELSE SpreadKeepsFirst(IF Has(acc, base[1][1]) THEN acc
                        ELSE Append(acc, base[1]),
                        Tail(base))

\* { ...acc, ...base }
RECURSIVE Spread(_, _)
Spread(acc, base) ==
  IF base = <<>> THEN acc
  ELSE Spread(Put(acc, base[1][1], base[1][2]), Tail(base))

\* ------------------------------------------------------------ style values
\* a value of a style object, by its typeof
Str(s) == [kind |-> "string", v |-> s]
Num(n) == [kind |-> "number", n |-> n]
Obj(o) == [kind |-> "object", o |-> o]

PColor == <<"-", "-", "c", "o", "l", "o", "r", "-">>
PVar == <<"-", "-">>
KColorP == PColor \o <<"p">>
KVarP == PVar \o <<"p">>
KVarR == PVar \o <<"r">>
KPlain == <<"p">>
KDashes == PVar \o PVar \o <<"p">>
KScheme == <<"c", "o", "l", "o", "r", "-", "s", "c", "h", "e", "m", "e">>

FOklch == <<"o", "k", "l", "c", "h", "(">>
FRgb == <<"r", "g", "b", "(">>
FHsl == <<"h", "s", "l", "(">>
FLch == <<"l", "c", "h", "(">>

VOklch == FOklch \o <<"1", ")">>
VHslErr == FHsl \o <<"!", ")">>
VHexF == <<"#", "f", "f", "f">>
VHex1 == <<"#", "1", "1", "1">>
VDark == <<"d", "a", "r", "k">>
VRgbBad == FRgb \o <<"x", ")">>
VRed == <<"r", "e", "d">>
VHexRed == <<"#", "f", "0", "0">>

\* culori's formatHex: a hex string for a color it can parse, undefined
\* (the empty sequence here) for one it cannot, an exception otherwise.
formatHex(s) ==
  IF s = VOklch THEN [threw |-> FALSE, hex |-> VHex1]
  ELSE IF s = VRed THEN [threw |-> FALSE, hex |-> VHexRed]
  ELSE IF s = VHslErr THEN [threw |-> TRUE, hex |-> <<>>]
  ELSE [threw |-> FALSE, hex |-> <<>>]

\* a conversion that hands on whatever the color library returned
convertToHexNoFallback(colorString) ==
  LET r == formatHex(colorString)
  IN IF r.threw THEN colorString ELSE r.hex

convertToHex(colorString) ==
  LET r == formatHex(colorString)
  IN IF r.threw THEN colorString
     ELSE IF r.hex # <<>> THEN r.hex ELSE colorString

\* a key cleaner that removes two leading characters, whatever they are
cleanKeyUnchecked(key) ==
  IF StartsWith(key, PColor) THEN ReplaceFirst(key, PColor)
  ELSE IF Len(key) > 2 THEN SubSeq(key, 3, Len(key))
  ELSE key

cleanKey(key) ==
  IF StartsWith(key, PColor) THEN ReplaceFirst(key, PColor)
  ELSE IF StartsWith(key, PVar) THEN ReplaceFirst(key, PVar)
  ELSE key

IsColorCandidate(value) ==
  /\ value.kind = "string"
  /\ \/ Includes(value.v, FOklch)
     \/ Includes(value.v, FRgb)
     \/ Includes(value.v, FHsl)
     \/ Includes(value.v, FLch)

\* a conversion applied to every string value
convertValueEveryString(value) ==
  IF value.kind = "string" THEN Str(convertToHex(value.v)) ELSE value

convertValue(value) ==
  IF IsColorCandidate(value) THEN Str(convertToHex(value.v)) ELSE value

\* a conversion that stores each value under the key it came with
RECURSIVE convertIntoRawKeys(_, _)
convertIntoRawKeys(converted, styles) ==
  IF styles = <<>> THEN converted
  ELSE convertIntoRawKeys(Put(converted, styles[1][1],
                              convertValue(styles[1][2])),
                          Tail(styles))

RECURSIVE convertInto(_, _)
convertInto(converted, styles) ==
  IF styles = <<>> THEN converted
  ELSE convertInto(Put(converted, cleanKey(styles[1][1]),
                       convertValue(styles[1][2])),
                   Tail(styles))

convertStyles(styles) == convertInto(<<>>, styles)

\* -------------------------------------------------- command line and CSS
\* themesInput.split(",").map(trim).filter(length > 0); the items of
\* themesInput are the already trimmed pieces, "" for an empty piece.
parseThemes(items) == SelectSeq(items, LAMBDA t : t # "")

\* raw style objects an inline block can carry (values are strings)
I1 == << <<KColorP, Str(VOklch)>> >>
I2 == << <<KScheme, Str(VDark)>>, <<KVarP, Str(VHexF)>> >>

SeqsUpTo(S, n) == UNION {[1..k -> S] : k \in 0..n}

\* properties a style object can carry: keys with the compound prefix, the
\* generic prefix, no prefix and a doubled prefix; values that the color
\* library converts, rejects with an exception or answers with undefined,
\* a color keyword, a number and a nested object
RawKeys == {KColorP, KVarP, KPlain, KDashes, KScheme}
RawValues ==
  {Str(VOklch), Str(VHslErr), Str(VRgbBad), Str(VRed), Num(1),
   Obj(<< <<KColorP, Str(VOklch)>> >>)}

StyleObjects ==
  {o \in SeqsUpTo(RawKeys \X RawValues, MaxStyleKeys) :
     \A i, j \in 1..Len(o) : o[i][1] = o[j][1] => i = j}

\* the properties the inline-block scan stores: a key that starts with --
\* or is color-scheme, and the text after the colon
InlineStorable(o) ==
  /\ o # <<>>
  /\ \A i \in 1..Len(o) :
       /\ StartsWith(o[i][1], PVar) \/ o[i][1] = KScheme
       /\ o[i][2].kind = "string"

\* ------------------------------------------- text of reference blocks
\* The CSS text outside inline blocks is a sequence of tokens, each the
\* piece of text it stands for; TWs is one whitespace character.
TAt == "@plugin"
TWs == " "
TDq == "\"daisyui\""
TSq == "'daisyui'"
TOpen == "{"
TClose == "}"
TThemes == "themes:"
TComma == ","
TSemi == ";"
TFlag == "--default"
TFlag2 == "--prefersdark"
TSel == ".x"
TDecl == "color:red"

IsSpace(t) == t = TWs

IsFlag(t) == t \in {TFlag, TFlag2}

\* the position after a run of whitespace that starts at i
RECURSIVE SkipSpace(_, _)
SkipSpace(text, i) ==
  IF i <= Len(text) /\ IsSpace(text[i]) THEN SkipSpace(text, i + 1) ELSE i

\* the first position of token t at or after i, 0 when there is none
IndexFrom(text, t, i) ==
  IF \E j \in i..Len(text) : text[j] = t
  THEN CHOOSE j \in i..Len(text) :
         /\ text[j] = t
         /\ \A k \in i..(j - 1) : text[k] # t
  ELSE 0

Greatest(S) == CHOOSE x \in S : \A y \in S : y <= x

Least(S) == CHOOSE x \in S : \A y \in S : x <= y

\* /@plugin\s+["']daisyui["']\s*\{[^}]*themes:\s*([^;]+);/ tried at
\* position i: [^}]* is greedy, so the match uses the last themes: before
\* the first } that is followed by a non-empty run without ; and then a ;
\* and the group is that run without the whitespace \s* has taken.
matchAt(text, i) ==
  LET q == SkipSpace(text, i + 1)
      o == IF q <= Len(text) THEN SkipSpace(text, q + 1) ELSE q
      close == IndexFrom(text, TClose, o + 1)
      limit == IF close = 0 THEN Len(text) ELSE close - 1
      starts == {t \in (o + 1)..limit :
                   /\ text[t] = TThemes
                   /\ IndexFrom(text, TSemi, t + 1) > t + 1}
  IN IF /\ i <= Len(text) /\ text[i] = TAt
        /\ q > i + 1
        /\ q <= Len(text) /\ text[q] \in {TDq, TSq}
        /\ o <= Len(text) /\ text[o] = TOpen
        /\ starts # {}
     THEN LET t == Greatest(starts)
              semi == IndexFrom(text, TSemi, t + 1)
              c == SkipSpace(text, t + 1)
          IN [found |-> TRUE,
              themesString |->
                SubSeq(text, IF c < semi THEN c ELSE semi - 1, semi - 1),
              lastIndex |-> semi + 1]
     ELSE [found |-> FALSE, themesString |-> <<>>, lastIndex |-> i]

\* the loop over pluginRegex.exec: the groups of the successive matches
RECURSIVE execAll(_, _)
execAll(text, from) ==
  LET hits == {i \in from..Len(text) : matchAt(text, i).found}
  IN IF hits = {} THEN <<>>
     ELSE LET m == matchAt(text, Least(hits))
          IN <<m.themesString>> \o execAll(text, m.lastIndex)

\* String.prototype.split(",")
RECURSIVE splitComma(_)
splitComma(str) ==
  LET k == IndexFrom(str, TComma, 1)
  IN IF k = 0 THEN <<str>>
     ELSE <<SubSeq(str, 1, k - 1)>> \o splitComma(SubSeq(str, k + 1, Len(str)))

\* String.prototype.trim()
RECURSIVE trim(_)
trim(str) ==
  IF str # <<>> /\ IsSpace(str[1]) THEN trim(Tail(str))
  ELSE IF str # <<>> /\ IsSpace(str[Len(str)])
       THEN trim(SubSeq(str, 1, Len(str) - 1))
       ELSE str

\* an item from which nothing is cut
cutFlagsKeepsAll(str) == str

\* str.split(/\s+--/)[0]: what precedes the first run of whitespace that
\* is followed by --
cutFlags(str) ==
  LET marks == {j \in 1..Len(str) :
                  /\ IsSpace(str[j])
                  /\ SkipSpace(str, j) <= Len(str)
                  /\ IsFlag(str[SkipSpace(str, j)])}
  IN IF marks = {} THEN str ELSE SubSeq(str, 1, Least(marks) - 1)

\* the text the tokens of str stand for
RECURSIVE Join(_)
Join(str) == IF str = <<>> THEN "" ELSE str[1] \o Join(Tail(str))

\* the names of one themes: value, empty ones dropped
themesOf(themesString) ==
  LET parts == splitComma(themesString)
      cleaned == [i \in 1..Len(parts) |->
                    Join(trim(cutFlags(trim(parts[i]))))]
  IN SelectSeq(cleaned, LAMBDA t : t # "")

RECURSIVE pushAll(_)
pushAll(groups) ==
  IF groups = <<>> THEN <<>>
  ELSE themesOf(groups[1]) \o pushAll(Tail(groups))

\* a scan that returns every name as often as it is written
extractThemeNamesFromCssAll(cssContent) == pushAll(execAll(cssContent, 1))

\* names of all matched reference blocks, duplicates removed
extractThemeNamesFromCss(cssContent) ==
  Dedup(pushAll(execAll(cssContent, 1)))

\* ------------------------------------------------- text of inline blocks
\* The body of an inline block is a sequence of lines, each a sequence of
\* characters; the match of /@plugin\s+["']daisyui\/theme["']\s*\{([\s\S]*?)\}/
\* and the split of the body at "\n" are taken as done.
CName == <<"n", "a", "m", "e">>
CDefault == <<"d", "e", "f", "a", "u", "l", "t">>
CTrue == <<"t", "r", "u", "e">>
CLineComment == <<"/", "/">>
CBlockComment == <<"/", "*">>

\* a pattern that accepts a property only when a semicolon ends it
propMatchNeedsSemicolon(trimmed) ==
  LET colon == IndexFrom(trimmed, ":", 1)
      rest == SubSeq(trimmed, colon + 1, Len(trimmed))
      semi == IndexFrom(rest, ";", 1)
      part == SubSeq(rest, 1, semi - 1)
      c == SkipSpace(part, 1)
  IN IF colon > 1 /\ semi > 1 /\ semi = Len(rest)
     THEN [matched |-> TRUE,
           key |-> SubSeq(trimmed, 1, colon - 1),
           value |-> SubSeq(part, IF c <= Len(part) THEN c ELSE Len(part),
                            Len(part))]
     ELSE [matched |-> FALSE, key |-> <<>>, value |-> <<>>]

\* trimmed.match(/^([^:]+):\s*([^;]+);?\s*$/): the key is what precedes the
\* first colon, the value what follows it up to the end or to a semicolon
\* that only whitespace may follow, without the whitespace \s* has taken.
propMatch(trimmed) ==
  LET colon == IndexFrom(trimmed, ":", 1)
      rest == SubSeq(trimmed, colon + 1, Len(trimmed))
      semi == IndexFrom(rest, ";", 1)
      part == IF semi = 0 THEN rest ELSE SubSeq(rest, 1, semi - 1)
      after == IF semi = 0 THEN <<>> ELSE SubSeq(rest, semi + 1, Len(rest))
      c == SkipSpace(part, 1)
  IN IF colon > 1 /\ part # <<>> /\ trim(after) = <<>>
     THEN [matched |-> TRUE,
           key |-> SubSeq(trimmed, 1, colon - 1),
           value |-> SubSeq(part, IF c <= Len(part) THEN c ELSE Len(part),
                            Len(part))]
     ELSE [matched |-> FALSE, key |-> <<>>, value |-> <<>>]

\* a line scan that stores every property it recognizes
scanLineStoresAll(acc, line) ==
  LET trimmed == trim(line)
      m == propMatch(trimmed)
  IN IF \/ trimmed = <<>>
        \/ StartsWith(trimmed, CLineComment)
        \/ StartsWith(trimmed, CBlockComment)
        \/ ~m.matched
     THEN acc
     ELSE [acc EXCEPT !.styles = Put(@, trim(m.key), Str(trim(m.value)))]

\* the body of the loop over the lines of a block; acc holds themeName and
\* styles
scanLine(acc, line) ==
  LET trimmed == trim(line)
      m == propMatch(trimmed)
      cleanedKey == trim(m.key)
      cleanValue == trim(m.value)
  IN IF \/ trimmed = <<>>
        \/ StartsWith(trimmed, CLineComment)
        \/ StartsWith(trimmed, CBlockComment)
        \/ ~m.matched
     THEN acc
     ELSE IF cleanedKey = CName
          THEN [acc EXCEPT !.name = Join(cleanValue)]
          ELSE IF StartsWith(cleanedKey, PVar)
               THEN [acc EXCEPT !.styles = Put(@, cleanedKey, Str(cleanValue))]
               ELSE IF cleanedKey = KScheme
                    THEN [acc EXCEPT
                            !.styles = Put(@, KScheme, Str(cleanValue))]
                    ELSE acc

RECURSIVE scanFrom(_, _)
scanFrom(acc, lines) ==
  IF lines = <<>> THEN acc
  ELSE scanFrom(scanLine(acc, lines[1]), Tail(lines))

\* themeName and styles after the lines of a block
scanLines(lines) == scanFrom([name |-> "", styles |-> <<>>], lines)

\* the lines of a block written for a name and a style object, one
\* property a line
blockLines(name, styles) ==
  (IF name = "" THEN <<>> ELSE << CName \o <<":", TWs, name, ";">> >>)
    \o [i \in 1..Len(styles) |->
          <<TWs, TWs>> \o styles[i][1] \o <<":", TWs>> \o styles[i][2].v
            \o <<";">>]

\* an inline block: its lines, and the name and style object it is written
\* for ("" when it has no name property)
WrittenBlock(name, styles) ==
  [name |-> name, styles |-> styles, lines |-> blockLines(name, styles)]

BlockChoices ==
  { WrittenBlock("a", I1),
    WrittenBlock("c", I1),
    WrittenBlock("c", I2),
    WrittenBlock("", I1) }

\* lines of an inline block, with what each is written as: the name
\* property, a stored property, or nothing the record shows; canon is the
\* same property ended by a semicolon, empty for a blank or comment line
LineChoices ==
  { [chars |-> CName \o <<":", TWs, "a", ";">>,
     kind |-> "name", key |-> CName, value |-> <<"a">>,
     canon |-> CName \o <<":", TWs, "a", ";">>],
    [chars |-> <<TWs, TWs>> \o CName \o <<":", "c">>,
     kind |-> "name", key |-> CName, value |-> <<"c">>,
     canon |-> CName \o <<":", "c", ";">>],
    [chars |-> KColorP \o <<":", TWs>> \o VOklch \o <<";">>,
     kind |-> "style", key |-> KColorP, value |-> VOklch,
     canon |-> KColorP \o <<":", TWs>> \o VOklch \o <<";">>],
    [chars |-> <<TWs>> \o KVarP \o <<TWs, ":", TWs, TWs>> \o VHexF,
     kind |-> "style", key |-> KVarP, value |-> VHexF,
     canon |-> KVarP \o <<":">> \o VHexF \o <<";">>],
    [chars |-> KScheme \o <<":", TWs>> \o VDark \o <<";", TWs>>,
     kind |-> "style", key |-> KScheme, value |-> VDark,
     canon |-> KScheme \o <<":", TWs>> \o VDark \o <<";">>],
    [chars |-> CDefault \o <<":", TWs>> \o CTrue \o <<";">>,
     kind |-> "other", key |-> CDefault, value |-> CTrue,
     canon |-> CDefault \o <<":", TWs>> \o CTrue \o <<";">>],
    [chars |-> CLineComment \o <<TWs>> \o CName \o <<":", TWs, "b", ";">>,
     kind |-> "comment", key |-> <<>>, value |-> <<>>, canon |-> <<>>],
    [chars |-> <<TWs>> \o CBlockComment \o <<TWs>> \o KVarR
                 \o <<":", TWs, "1", TWs, "*", "/">>,
     kind |-> "comment", key |-> <<>>, value |-> <<>>, canon |-> <<>>],
    [chars |-> <<TWs, TWs>>,
     kind |-> "blank", key |-> <<>>, value |-> <<>>, canon |-> <<>>],
    [chars |-> KVarR \o <<":", "1", ";", TWs>> \o KVarP \o <<":", "2", ";">>,
     kind |-> "unmatched", key |-> <<>>, value |-> <<>>,
     canon |-> KVarR \o <<":", "1", ";", TWs>> \o KVarP \o <<":", "2", ";">>] }

\* the name a sequence of written lines gives the block: that of its last
\* name property
RECURSIVE writtenName(_)
writtenName(ls) ==
  IF ls = <<>> THEN ""
  ELSE IF ls[Len(ls)].kind = "name" THEN Join(ls[Len(ls)].value)
  ELSE writtenName(SubSeq(ls, 1, Len(ls) - 1))

\* the style object a sequence of written lines gives the block
RECURSIVE writtenStyles(_)
writtenStyles(ls) ==
  IF ls = <<>> THEN <<>>
  ELSE LET front == writtenStyles(SubSeq(ls, 1, Len(ls) - 1))
           last == ls[Len(ls)]
       IN IF last.kind = "style"
          THEN Put(front, last.key, Str(last.value))
          ELSE front

BlockTexts ==
  { [name |-> writtenName(ls), styles |-> writtenStyles(ls),
     lines |-> [i \in 1..Len(ls) |-> ls[i].chars]] :
      ls \in SeqsUpTo(LineChoices, MaxLines) }

\* ------------------------------------------------------- CSS files
\* a reference block as it is usually written
OpenSpaced == <<TAt, TWs, TDq, TWs, TOpen, TWs, TThemes>>
\* single quotes and no optional whitespace
OpenTight == <<TAt, TWs, TSq, TOpen, TThemes>>
CloseBlock == <<TSemi, TWs, TClose>>

RECURSIVE joinItems(_)
joinItems(items) ==
  IF items = <<>> THEN <<>>
  ELSE IF Len(items) = 1 THEN items[1]
  ELSE items[1] \o <<TComma>> \o joinItems(Tail(items))

\* the text of a well-formed reference block with the names of refs
RefText(refs) ==
  IF refs = <<>> THEN <<>>
  ELSE OpenSpaced \o joinItems([i \in 1..Len(refs) |-> <<TWs, refs[i]>>])
         \o CloseBlock

\* a CSS file: the text around its inline blocks, the names written in the
\* items of its well-formed reference blocks ("" for an item without one),
\* whether its first reference block is well formed or how it is not, and
\* what the scan finds in its inline blocks
NoCss ==
  [exists |-> FALSE, text |-> <<>>, refs |-> <<>>, shape |-> "wellFormed",
   blocks |-> <<>>]

\* a missing file, and the files with reference names and inline blocks,
\* short of the greatest number of both at once
CssChoices ==
  {NoCss} \cup
  { [exists |-> TRUE, text |-> RefText(rb[1]), refs |-> rb[1],
     shape |-> "wellFormed", blocks |-> rb[2]] :
      rb \in {x \in SeqsUpTo(RefNames, MaxRefs)
                      \X SeqsUpTo(BlockChoices, MaxBlocks) :
                Len(x[1]) + Len(x[2]) < MaxRefs + MaxBlocks} }

\* items of a themes: value, with the name each is written for
ItemChoices ==
  { [tokens |-> <<TWs, "a">>, name |-> "a"],
    [tokens |-> <<TWs, "b", TWs, TFlag>>, name |-> "b"],
    [tokens |-> <<TWs, "c", TWs, TWs, TFlag, TWs, TFlag2, TWs>>,
     name |-> "c"],
    [tokens |-> <<TWs>>, name |-> ""],
    [tokens |-> <<TFlag>>, name |-> TFlag] }

\* how the first reference block starts and ends, with the way in which it
\* is not well formed
OpenChoices ==
  { [tokens |-> OpenSpaced, shape |-> "wellFormed"],
    [tokens |-> OpenTight, shape |-> "wellFormed"],
    [tokens |-> <<TThemes>>, shape |-> "noDirective"] }

EndChoices ==
  { [tokens |-> CloseBlock, shape |-> "wellFormed"],
    [tokens |-> <<TSemi>>, shape |-> "unterminated"],
    [tokens |-> <<>>, shape |-> "unterminated"],
    [tokens |-> <<TWs, TClose>>, shape |-> "valueNotClosed"] }

\* what follows the first reference block: nothing, a second reference
\* block, or an ordinary rule
TailChoices ==
  { [tokens |-> <<>>, refs |-> <<>>],
    [tokens |-> <<TWs>> \o RefText(<<"b", "a">>), refs |-> <<"b", "a">>],
    [tokens |-> <<TWs, TSel, TWs, TOpen, TWs, TDecl, TSemi, TWs, TClose>>,
     refs |-> <<>>] }

ShapeOf(open, end) ==
  IF open.shape # "wellFormed" THEN open.shape ELSE end.shape

CssTexts ==
  { [exists |-> TRUE,
     text |-> open.tokens
                \o joinItems([i \in 1..Len(items) |-> items[i].tokens])
                \o end.tokens \o tail.tokens,
     refs |-> (IF ShapeOf(open, end) = "wellFormed"
               THEN [i \in 1..Len(items) |-> items[i].name]
               ELSE <<>>) \o tail.refs,
     shape |-> ShapeOf(open, end),
     blocks |-> <<>>] :
      open \in OpenChoices, items \in SeqsUpTo(ItemChoices, MaxItems),
      end \in EndChoices, tail \in TailChoices }

\* a scan that emits a record for every block that has a name
RECURSIVE inlineRecordsAnyNamed(_)
inlineRecordsAnyNamed(blocks) ==
  IF blocks = <<>> THEN <<>>
  ELSE LET b == scanLines(blocks[1].lines)
       IN IF b.name # ""
          THEN <<[name |-> b.name, styles |-> convertStyles(b.styles)]>>
                 \o inlineRecordsAnyNamed(Tail(blocks))
          ELSE inlineRecordsAnyNamed(Tail(blocks))

\* one record per inline block that has a name and at least one property
RECURSIVE inlineRecords(_)
inlineRecords(blocks) ==
  IF blocks = <<>> THEN <<>>
  ELSE LET b == scanLines(blocks[1].lines)
       IN IF b.name # "" /\ Len(b.styles) > 0
          THEN <<[name |-> b.name, styles |-> convertStyles(b.styles)]>>
                 \o inlineRecords(Tail(blocks))
          ELSE inlineRecords(Tail(blocks))

extractInlineThemesFromCss(css) == inlineRecords(css.blocks)

\* a map in which the first record of a name stays
RECURSIVE setAllKeepsFirst(_, _)
setAllKeepsFirst(map, records) ==
  IF records = <<>> THEN map
  ELSE setAllKeepsFirst(IF Has(map, records[1].name) THEN map
                        ELSE Append(map, <<records[1].name,
                                           records[1].styles>>),
                        Tail(records))

\* inlineThemes.forEach(t => inlineThemeMap.set(t.name, t.styles))
RECURSIVE setAll(_, _)
setAll(map, records) ==
  IF records = <<>> THEN map
  ELSE setAll(Put(map, records[1].name, records[1].styles), Tail(records))

namesOf(records) == [i \in 1..Len(records) |-> records[i].name]

\* allThemes after the read-CSS block of main
mergeNames(explicit, themeNames, inlineThemes) ==
  LET afterRefs == IF Len(themeNames) > 0
                   THEN Dedup(explicit \o themeNames)
                   ELSE explicit
  IN IF Len(inlineThemes) > 0
     THEN Dedup(afterRefs \o namesOf(inlineThemes))
     ELSE afterRefs

\* ------------------------------------------------------ candidate paths
\* <<theme, dir, layout>>: layout 1 = theme/<name>/index.js,
\* 2 = dist/theme/<name>/index.js, 3 = src/theming/themes/<name>.js,
\* 4 = dist/themes/<name>.js, under the daisyui package of dir.
Path(theme, dir, layout) == <<theme, dir, layout>>

fourLayouts(theme, dir) == [l \in 1..4 |-> Path(theme, dir, l)]

cwdPaths(theme) == fourLayouts(theme, "cwd")

parentPaths(theme) == <<Path(theme, "parent", 1), Path(theme, "parent", 2)>>

resolvedPaths(theme, dir) ==
  IF dir = "none" THEN <<>> ELSE fourLayouts(theme, dir)

\* a probe list that looks at the tool's own installation first
allPossiblePathsScriptFirst(theme, cwdDir, scriptDir) ==
  resolvedPaths(theme, scriptDir) \o cwdPaths(theme) \o parentPaths(theme)
    \o resolvedPaths(theme, cwdDir)

allPossiblePaths(theme, cwdDir, scriptDir) ==
  cwdPaths(theme) \o parentPaths(theme)
    \o resolvedPaths(theme, cwdDir) \o resolvedPaths(theme, scriptDir)

uniquePaths(theme, cwdDir, scriptDir) ==
  Dedup(allPossiblePaths(theme, cwdDir, scriptDir))

existingOf(theme, cwdDir, scriptDir, files) ==
  SelectSeq(uniquePaths(theme, cwdDir, scriptDir),
            LAMBDA p : p \in DOMAIN files)

notFoundMessage(theme) ==
  <<"Could not import theme '", theme,
    "' from any known path in node_modules">>

\* style objects a theme function can pass to addBase
B1 == << <<KColorP, Str(VOklch)>> >>
B2 == << <<KColorP, Str(VHexF)>>, <<KVarR, Num(1)>> >>
BaseChoices == {B1, B2}

\* what a module file does when it is imported: the import throws, or the
\* default export is not a function, or it is a function that passes the
\* objects of bases to addBase, one call each, and then returns or throws
ImportError == [kind |-> "importThrows", bases |-> <<>>, ends |-> "none"]
NotAFunction == [kind |-> "notFunction", bases |-> <<>>, ends |-> "none"]
ThemeFunction(bases, ends) ==
  [kind |-> "function", bases |-> bases, ends |-> ends]

ModuleChoices ==
  {ImportError, NotAFunction}
    \cup {ThemeFunction(b, "returns") : b \in SeqsUpTo(BaseChoices, MaxAddBase)}
    \cup {ThemeFunction(b, "throws") : b \in SeqsUpTo(BaseChoices, 1)}

\* ------------------------------------------------------------------ state
VARIABLES
  themesInput,    \* pieces of the --themes value
  readCss,        \* --read-css
  cssFile,        \* the file at --css-path
  cwdResolve,     \* package dir found from <cwd>/package.json, or "none"
  scriptResolve,  \* package dir found from the tool's location, or "none"
  disk,           \* theme module files that exist, with what each does
  pc,             \* position of main / extractThemeData
  exitCode,       \* process exit code, -1 while running
  themes,         \* parseArguments().themes
  allThemes, inlineThemeMap, result, errors,   \* locals of main
  themeNames, inlineThemes,                    \* locals of the read-CSS block
  idx,            \* position of the for-of loop in allThemes
  existingPaths, pathIdx, extractedStyles,     \* locals of extractThemeData
  themeData,      \* value the extractThemeData promise resolved with
  thrown,         \* message the extractThemeData promise rejected with
  output,         \* content of the output file, NotWritten before the write
  reported,       \* errors listed by the summary, NotReported before it
  tried,          \* candidates loaded by the current extractThemeData call
  calls,          \* style objects passed to addBase by the running function
  invoked,        \* candidates whose function the current call has invoked
  processed       \* names the loop has finished, with how each ended and
                  \* the styles stored for it

envVars == <<themesInput, readCss, cssFile, cwdResolve, scriptResolve, disk>>
mainVars == <<themes, allThemes, inlineThemeMap, result, errors,
              themeNames, inlineThemes, idx, output, reported,
              processed>>
extractVars == <<existingPaths, pathIdx, extractedStyles, themeData, thrown,
                 tried, calls, invoked>>
vars == <<envVars, mainVars, extractVars, pc, exitCode>>

\* ---------------------------------------------------------------- initial
\* no output file yet: a collection no run writes, as no theme name is empty
NotWritten == << <<"", <<>>>> >>

\* no summary yet: an error list no run prints
NotReported == <<[theme |-> "", error |-> <<>>]>>

Fresh ==
  /\ pc = "parseArguments"
  /\ exitCode = -1
  /\ themes = <<>>
  /\ allThemes = <<>>
  /\ inlineThemeMap = <<>>
  /\ result = <<>>
  /\ errors = <<>>
  /\ themeNames = <<>>
  /\ inlineThemes = <<>>
  /\ idx = 1
  /\ existingPaths = <<>>
  /\ pathIdx = 1
  /\ extractedStyles = <<>>
  /\ themeData = <<>>
  /\ thrown = <<>>
  /\ output = NotWritten
  /\ reported = NotReported
  /\ tried = <<>>
  /\ calls = <<>>
  /\ invoked = <<>>
  /\ processed = <<>>

\* an installation under the working directory: theme a has a broken file
\* in layout 1 and a working one in layout 2, theme b has only files that
\* fail, theme c has none
InstalledDisk ==
  (Path("a", "cwd", 1) :> ImportError)
    @@ (Path("a", "cwd", 2) :> ThemeFunction(<<B1, B2>>, "returns"))
    @@ (Path("b", "cwd", 1) :> NotAFunction)
    @@ (Path("b", "cwd", 2) :> ThemeFunction(<<B1>>, "throws"))

\* any command line and CSS file, on that installation
InitRun ==
  /\ themesInput \in SeqsUpTo(ExplicitItems, MaxExplicit)
  /\ readCss \in BOOLEAN
  /\ cssFile \in (IF readCss THEN CssChoices ELSE {NoCss})
  /\ cwdResolve = "cwd"
  /\ scriptResolve = "cwd"
  /\ disk = InstalledDisk
  /\ Fresh

AllPathsOf(theme) == {Path(theme, d, l) : d \in Dirs, l \in Layouts}

FilesIn(paths, contents) ==
  UNION {[S -> contents] :
           S \in {T \in SUBSET paths : Cardinality(T) <= MaxExisting}}

\* one requested theme, module files anywhere, each either failing to load
\* or working
InitPaths ==
  /\ themesInput = <<"a">>
  /\ readCss = FALSE
  /\ cssFile = NoCss
  /\ cwdResolve \in Dirs \cup {"none"}
  /\ scriptResolve \in Dirs \cup {"none"}
  /\ disk \in FilesIn(AllPathsOf("a"),
                       {ImportError, ThemeFunction(<<B1>>, "returns")})
  /\ Fresh

\* one requested theme, module files of any kind under the working directory
InitResolve ==
  /\ themesInput = <<"a">>
  /\ readCss = FALSE
  /\ cssFile = NoCss
  /\ cwdResolve = "cwd"
  /\ scriptResolve = "cwd"
  /\ disk \in FilesIn({Path("a", "cwd", l) : l \in Layouts}, ModuleChoices)
  /\ Fresh

\* one theme whose style object is any of StyleObjects, passed to addBase
\* by the module of the theme or, where the scan can store it, written in
\* an inline block
InitConvert ==
  /\ \E o \in StyleObjects :
       \/ /\ themesInput = <<"a">>
          /\ readCss = FALSE
          /\ cssFile = NoCss
          /\ disk = (Path("a", "cwd", 1) :> ThemeFunction(<<o>>, "returns"))
       \/ /\ InlineStorable(o)
          /\ themesInput = <<>>
          /\ readCss = TRUE
          /\ cssFile = [exists |-> TRUE, text |-> <<>>, refs |-> <<>>,
                        shape |-> "wellFormed",
                        blocks |-> <<WrittenBlock("a", o)>>]
          /\ disk = InstalledDisk
  /\ cwdResolve = "cwd"
  /\ scriptResolve = "cwd"
  /\ Fresh

\* a CSS file with any of the reference-block texts, no explicit name and
\* no theme module installed
InitCss ==
  /\ themesInput = <<>>
  /\ readCss = TRUE
  /\ cssFile \in CssTexts
  /\ cwdResolve = "cwd"
  /\ scriptResolve = "cwd"
  /\ disk = <<>>
  /\ Fresh

\* theme names of which two are written like array indices
OrderNames == {"a", "b", "2", "10"}

\* an installation that has a working module for every name of OrderNames
\* but b
OrderDisk ==
  (Path("a", "cwd", 1) :> ThemeFunction(<<B1>>, "returns"))
    @@ (Path("2", "cwd", 1) :> ThemeFunction(<<B2>>, "returns"))
    @@ (Path("10", "cwd", 1) :> ThemeFunction(<<B1>>, "returns"))

\* any explicit list of those names, on that installation
InitOrder ==
  /\ themesInput \in SeqsUpTo(OrderNames, MaxExplicit)
  /\ readCss = FALSE
  /\ cssFile = NoCss
  /\ cwdResolve = "cwd"
  /\ scriptResolve = "cwd"
  /\ disk = OrderDisk
  /\ Fresh

\* a CSS file with one inline block of any lines, no explicit name and no
\* theme module installed
InitInline ==
  /\ themesInput = <<>>
  /\ readCss = TRUE
  /\ \E b \in BlockTexts :
       cssFile = [exists |-> TRUE, text |-> <<>>, refs |-> <<>>,
                  shape |-> "wellFormed", blocks |-> <<b>>]
  /\ cwdResolve = "cwd"
  /\ scriptResolve = "cwd"
  /\ disk = <<>>
  /\ Fresh

Init ==
  \/ InitRun \/ InitPaths \/ InitResolve \/ InitConvert \/ InitCss
  \/ InitInline \/ InitOrder

\* ---------------------------------------------------------------- actions
Exit(code) ==
  /\ pc' = "exit"
  /\ exitCode' = code

\* an argument parser that accepts a run without any name
ParseArgumentsLenient ==
  /\ pc = "parseArguments"
  /\ themes' = parseThemes(themesInput)
  /\ allThemes' = parseThemes(themesInput)
  /\ pc' = IF readCss THEN "readCss" ELSE "extracting"
  /\ UNCHANGED <<envVars, inlineThemeMap, result, errors, themeNames,
                 inlineThemes, idx, output, reported, processed, extractVars,
                 exitCode>>

\* parseArguments (called first by main) and the declarations of main
ParseArguments ==
  /\ pc = "parseArguments"
  /\ LET parsed == parseThemes(themesInput)
     IN /\ themes' = parsed
        /\ IF ~readCss /\ Len(parsed) = 0
           THEN /\ Exit(1)
                /\ UNCHANGED allThemes
           ELSE /\ pc' = IF readCss THEN "readCss" ELSE "extracting"
                /\ allThemes' = parsed
                /\ UNCHANGED exitCode
  /\ UNCHANGED <<envVars, inlineThemeMap, result, errors, themeNames,
                 inlineThemes, idx, output, reported, processed,
                 extractVars>>

\* a read-CSS block that carries on without the file
ReadCssMissingIgnored ==
  /\ pc = "readCss"
  /\ ~cssFile.exists
  /\ pc' = "extracting"
  /\ UNCHANGED <<envVars, mainVars, extractVars, exitCode>>

\* the read-CSS block of main when the file is missing
ReadCssMissing ==
  /\ pc = "readCss"
  /\ ~cssFile.exists
  /\ Exit(1)
  /\ UNCHANGED <<envVars, mainVars, extractVars>>

\* the read-CSS block is reached and the file can be read
AtReadCss == pc = "readCss" /\ cssFile.exists

\* the read-CSS block of main: readCssFile and the two merges
ReadCssFile ==
  /\ AtReadCss
  /\ LET names   == extractThemeNamesFromCss(cssFile.text)
         inlines == extractInlineThemesFromCss(cssFile)
     IN /\ themeNames' = names
        /\ inlineThemes' = inlines
        /\ allThemes' = mergeNames(allThemes, names, inlines)
        /\ inlineThemeMap' = setAll(inlineThemeMap, inlines)
  /\ pc' = "announce"
  /\ UNCHANGED <<envVars, themes, result, errors, idx, output, reported,
                 processed, extractVars, exitCode>>

\* end of the read-CSS block: its locals go out of scope
Announce ==
  /\ pc = "announce"
  /\ themeNames' = <<>>
  /\ inlineThemes' = <<>>
  /\ pc' = "extracting"
  /\ UNCHANGED <<envVars, themes, allThemes, inlineThemeMap, result, errors,
                 idx, output, reported, processed, extractVars, exitCode>>

AtTheme == pc = "extracting" /\ idx <= Len(allThemes)

\* loop body, inline branch
UseInline ==
  /\ AtTheme
  /\ Has(inlineThemeMap, allThemes[idx])
  /\ result' =
       Assign(result, allThemes[idx], Get(inlineThemeMap, allThemes[idx]))
  /\ processed' =
       Append(processed, <<allThemes[idx], "inline",
                           Get(inlineThemeMap, allThemes[idx])>>)
  /\ idx' = idx + 1
  /\ UNCHANGED <<envVars, themes, allThemes, inlineThemeMap, errors,
                 themeNames, inlineThemes, output, reported, extractVars, pc,
                 exitCode>>

\* a loop body that resolves every name without looking at the inline map
StartExtractAlways ==
  /\ AtTheme
  /\ existingPaths' =
       existingOf(allThemes[idx], cwdResolve, scriptResolve, disk)
  /\ pathIdx' = 1
  /\ tried' = <<>>
  /\ invoked' = <<>>
  /\ pc' = "candidates"
  /\ UNCHANGED <<envVars, mainVars, extractedStyles, themeData, thrown,
                 calls, exitCode>>

\* the loop is at a name that has no inline record
AtExtract == AtTheme /\ ~Has(inlineThemeMap, allThemes[idx])

\* loop body, else branch: extractThemeData up to its candidate loop
StartExtract ==
  /\ AtExtract
  /\ existingPaths' =
       existingOf(allThemes[idx], cwdResolve, scriptResolve, disk)
  /\ pathIdx' = 1
  /\ tried' = <<>>
  /\ invoked' = <<>>
  /\ pc' = "candidates"
  /\ UNCHANGED <<envVars, mainVars, extractedStyles, themeData, thrown,
                 calls, exitCode>>

AtCandidate == pc = "candidates" /\ pathIdx <= Len(existingPaths)

\* the module at the candidate the call is at
Module == disk[existingPaths[pathIdx]]

NextCandidate(outcome) ==
  /\ tried' = Append(tried, <<existingPaths[pathIdx], outcome>>)
  /\ pathIdx' = pathIdx + 1
  /\ pc' = "candidates"

\* a failed import that rejects the whole call
ImportThrowsPropagates ==
  /\ AtCandidate
  /\ Module.kind = "importThrows"
  /\ tried' = Append(tried, <<existingPaths[pathIdx], "importThrew">>)
  /\ thrown' = <<"Cannot find module">>
  /\ pc' = "rejected"
  /\ UNCHANGED <<envVars, mainVars, existingPaths, pathIdx, extractedStyles,
                 themeData, calls, invoked, exitCode>>

\* await import(...) throws
ImportThrows ==
  /\ AtCandidate
  /\ Module.kind = "importThrows"
  /\ NextCandidate("importThrew")
  /\ UNCHANGED <<envVars, mainVars, existingPaths, extractedStyles,
                 themeData, thrown, calls, invoked, exitCode>>

\* a continue that stays at the candidate it was at
ImportNotFunctionAgain ==
  /\ AtCandidate
  /\ Module.kind = "notFunction"
  /\ tried' = IF \E i \in 1..Len(tried) : tried[i][1] = existingPaths[pathIdx]
              THEN tried
              ELSE Append(tried, <<existingPaths[pathIdx], "notFunction">>)
  /\ pc' = "candidates"
  /\ UNCHANGED <<envVars, mainVars, existingPaths, pathIdx, extractedStyles,
                 themeData, thrown, calls, invoked, exitCode>>

\* the default export is not a function
ImportNotFunction ==
  /\ AtCandidate
  /\ Module.kind = "notFunction"
  /\ NextCandidate("notFunction")
  /\ UNCHANGED <<envVars, mainVars, existingPaths, extractedStyles,
                 themeData, thrown, calls, invoked, exitCode>>

\* a call that goes on with the accumulator of the candidate before
InvokeThemeKeepsStyles ==
  /\ AtCandidate
  /\ Module.kind = "function"
  /\ calls' = <<>>
  /\ invoked' = Append(invoked, existingPaths[pathIdx])
  /\ pc' = "theme"
  /\ UNCHANGED <<envVars, mainVars, existingPaths, pathIdx, extractedStyles,
                 themeData, thrown, tried, exitCode>>

\* the default export is a function: it is called with a fresh accumulator
InvokeTheme ==
  /\ AtCandidate
  /\ Module.kind = "function"
  /\ extractedStyles' = <<>>
  /\ calls' = <<>>
  /\ invoked' = Append(invoked, existingPaths[pathIdx])
  /\ pc' = "theme"
  /\ UNCHANGED <<envVars, mainVars, existingPaths, pathIdx, themeData,
                 thrown, tried, exitCode>>

\* the running theme function calls addBase(base)
AddBase ==
  /\ pc = "theme"
  /\ Len(calls) < Len(Module.bases)
  /\ LET base == Module.bases[Len(calls) + 1]
     IN /\ extractedStyles' = Spread(extractedStyles, base)
        /\ calls' = Append(calls, base)
  /\ UNCHANGED <<envVars, mainVars, existingPaths, pathIdx, themeData,
                 thrown, tried, invoked, pc, exitCode>>

FunctionEnds(how) ==
  /\ pc = "theme"
  /\ Len(calls) = Len(Module.bases)
  /\ Module.ends = how

\* the running theme function throws
ThemeThrows ==
  /\ FunctionEnds("throws")
  /\ NextCandidate("threw")
  /\ UNCHANGED <<envVars, mainVars, existingPaths, extractedStyles,
                 themeData, thrown, calls, invoked, exitCode>>

\* a successful candidate after which the loop goes on
ThemeReturnsAndContinues ==
  /\ FunctionEnds("returns")
  /\ themeData' = convertStyles(extractedStyles)
  /\ NextCandidate("ok")
  /\ UNCHANGED <<envVars, mainVars, existingPaths, extractedStyles,
                 thrown, calls, invoked, exitCode>>

\* the running theme function returns: extractThemeData returns
ThemeReturns ==
  /\ FunctionEnds("returns")
  /\ themeData' = convertStyles(extractedStyles)
  /\ tried' = Append(tried, <<existingPaths[pathIdx], "ok">>)
  /\ pc' = "resolved"
  /\ UNCHANGED <<envVars, mainVars, existingPaths, pathIdx, extractedStyles,
                 thrown, calls, invoked, exitCode>>

\* a not-found error raised while candidates are left
NotFoundEarly ==
  /\ pc = "candidates"
  /\ thrown' = notFoundMessage(allThemes[idx])
  /\ pc' = "rejected"
  /\ UNCHANGED <<envVars, mainVars, existingPaths, pathIdx, extractedStyles,
                 themeData, tried, calls, invoked, exitCode>>

\* the candidate loop of extractThemeData is exhausted
NotFound ==
  /\ pc = "candidates"
  /\ pathIdx > Len(existingPaths)
  /\ thrown' = notFoundMessage(allThemes[idx])
  /\ pc' = "rejected"
  /\ UNCHANGED <<envVars, mainVars, existingPaths, pathIdx, extractedStyles,
                 themeData, tried, calls, invoked, exitCode>>

\* a loop that moves on while the locals of the call are still live
LeaveExtractInProgress ==
  /\ idx' = idx + 1
  /\ pc' = "extracting"
  /\ UNCHANGED extractVars

LeaveExtract ==
  /\ existingPaths' = <<>>
  /\ pathIdx' = 1
  /\ extractedStyles' = <<>>
  /\ themeData' = <<>>
  /\ thrown' = <<>>
  /\ tried' = <<>>
  /\ calls' = <<>>
  /\ invoked' = <<>>
  /\ idx' = idx + 1
  /\ pc' = "extracting"

\* a loop body that takes an empty style map for a failure
StoreResultUnlessEmpty ==
  /\ pc = "resolved"
  /\ IF themeData = <<>>
     THEN /\ errors' = Append(errors, [theme |-> allThemes[idx],
                                       error |-> notFoundMessage(allThemes[idx])])
          /\ processed' = Append(processed, <<allThemes[idx], "failed", <<>>>>)
          /\ UNCHANGED result
     ELSE /\ result' = Assign(result, allThemes[idx], themeData)
          /\ processed' =
               Append(processed, <<allThemes[idx], "resolved", themeData>>)
          /\ UNCHANGED errors
  /\ LeaveExtract
  /\ UNCHANGED <<envVars, themes, allThemes, inlineThemeMap, themeNames,
                 inlineThemes, output, reported, exitCode>>

\* result[theme] = themeData
StoreResult ==
  /\ pc = "resolved"
  /\ result' = Assign(result, allThemes[idx], themeData)
  /\ processed' = Append(processed, <<allThemes[idx], "resolved", themeData>>)
  /\ LeaveExtract
  /\ UNCHANGED <<envVars, themes, allThemes, inlineThemeMap, errors,
                 themeNames, inlineThemes, output, reported, exitCode>>

\* a catch block that gives up on the first failure
CatchErrorAborts ==
  /\ pc = "rejected"
  /\ errors' = Append(errors, [theme |-> allThemes[idx], error |-> thrown])
  /\ Exit(1)
  /\ UNCHANGED <<envVars, themes, allThemes, inlineThemeMap, result,
                 themeNames, inlineThemes, idx, output, reported, processed,
                 extractVars>>

\* catch block of the loop body
CatchError ==
  /\ pc = "rejected"
  /\ errors' = Append(errors, [theme |-> allThemes[idx], error |-> thrown])
  /\ processed' = Append(processed, <<allThemes[idx], "failed", <<>>>>)
  /\ LeaveExtract
  /\ UNCHANGED <<envVars, themes, allThemes, inlineThemeMap, result,
                 themeNames, inlineThemes, output, reported, exitCode>>

AfterLoop == pc = "extracting" /\ idx > Len(allThemes)

\* mkdirSync succeeds, or fails in a way the code ignores
MakeDir ==
  /\ AfterLoop
  /\ pc' = "write"
  /\ UNCHANGED <<envVars, mainVars, extractVars, exitCode>>

\* mkdirSync fails with an errno other than EEXIST
MakeDirFails ==
  /\ AfterLoop
  /\ Exit(1)
  /\ UNCHANGED <<envVars, mainVars, extractVars>>

\* a write that keeps nothing of a run in which a name failed
WriteOutputAllOrNothing ==
  /\ pc = "write"
  /\ output' = IF errors = <<>> THEN result ELSE <<>>
  /\ reported' = errors
  /\ pc' = "done"
  /\ exitCode' = 0
  /\ UNCHANGED <<envVars, themes, allThemes, inlineThemeMap, result, errors,
                 themeNames, inlineThemes, idx, processed, extractVars>>

\* writeFileSync succeeds and the summary is printed
WriteOutput ==
  /\ pc = "write"
  /\ output' = result
  /\ reported' = errors
  /\ pc' = "done"
  /\ exitCode' = 0
  /\ UNCHANGED <<envVars, themes, allThemes, inlineThemeMap, result, errors,
                 themeNames, inlineThemes, idx, processed, extractVars>>

\* writeFileSync throws
WriteFails ==
  /\ pc = "write"
  /\ Exit(1)
  /\ UNCHANGED <<envVars, mainVars, extractVars>>

Next ==
  \/ ParseArguments
  \/ ReadCssMissing
  \/ ReadCssFile
  \/ Announce
  \/ UseInline
  \/ StartExtract
  \/ ImportThrows
  \/ ImportNotFunction
  \/ InvokeTheme
  \/ AddBase
  \/ ThemeThrows
  \/ ThemeReturns
  \/ NotFound
  \/ StoreResult
  \/ CatchError
  \/ MakeDir
  \/ MakeDirFails
  \/ WriteOutput
  \/ WriteFails

Spec == Init /\ [][Next]_vars

\* the runs whose control flow differs: any command line with a CSS file of
\* at most one inline block, any module files for one name, and the names
\* of OrderNames
FairInit ==
  \/ InitRun /\ Len(cssFile.blocks) <= 1
  \/ InitResolve
  \/ InitOrder

\* where the run is: every step of Next changes it
position == <<pc, idx, pathIdx, Len(calls)>>

\* the steps of Next but the two that scan a file or build the candidate
\* list
OtherSteps ==
  \/ ParseArguments
  \/ ReadCssMissing
  \/ Announce
  \/ UseInline
  \/ ImportThrows
  \/ ImportNotFunction
  \/ InvokeTheme
  \/ AddBase
  \/ ThemeThrows
  \/ ThemeReturns
  \/ NotFound
  \/ StoreResult
  \/ CatchError
  \/ MakeDir
  \/ MakeDirFails
  \/ WriteOutput
  \/ WriteFails

\* main is one chain of awaited steps: when every import and every call of
\* a theme function returns or throws, the step the run is at is taken.
\* ReadCssFile can be taken exactly where AtReadCss holds and StartExtract
\* exactly where AtExtract holds, so weak fairness of the two is written
\* with these guards.
FairSpec ==
  /\ FairInit
  /\ [][Next]_vars
  /\ WF_position(OtherSteps)
  /\ <>[]AtReadCss => []<><<ReadCssFile>>_position
  /\ <>[]AtExtract => []<><<StartExtract>>_position

\* ------------------------------------------------------------- properties
InExtract == pc \in {"candidates", "theme", "resolved", "rejected"}

LoopOver == pc \in {"write", "done"}

FailedAt(i) == processed[i][2] = "failed"

RECURSIVE errorsOf(_)
errorsOf(log) ==
  IF log = <<>> THEN <<>>
  ELSE LET rest == errorsOf(SubSeq(log, 1, Len(log) - 1))
           last == log[Len(log)]
       IN IF last[2] = "failed"
          THEN Append(rest, [theme |-> last[1],
                             error |-> notFoundMessage(last[1])])
          ELSE rest

\* C1: a name whose resolution fails gets an error entry {theme, message}
\* and the loop goes on: the names are finished one by one in working-list
\* order without a gap, the error list is exactly the failures so far, the
\* run never exits from inside the loop, and the loop is left only when
\* every position has been processed.
C1_FailureIsolated ==
  /\ Len(processed) = idx - 1
  /\ \A i \in 1..Len(processed) : processed[i][1] = allThemes[i]
  /\ errors = errorsOf(processed)
  /\ pc = "exit" => (processed = <<>> /\ idx = 1) \/ idx > Len(allThemes)
  /\ LoopOver => Len(processed) = Len(allThemes)

C1_Witness ==
  /\ LoopOver
  /\ \E i, j \in 1..Len(processed) :
       /\ i < j
       /\ FailedAt(i)
       /\ processed[j][2] = "resolved"
       /\ processed[i][1] # processed[j][1]

Succeeded == {processed[i][1] : i \in {j \in 1..Len(processed) : ~FailedAt(j)}}

Failed == {processed[i][1] : i \in {j \in 1..Len(processed) : FailedAt(j)}}

\* C2: at the end of a run the keys of the collection are the names that
\* succeeded and the error list holds exactly one entry for each name that
\* failed, and no other entry.
C2_ExactlyOneErrorPerFailure ==
  pc = "done" =>
    /\ Keys(output) = Succeeded
    /\ \A n \in Failed :
         Cardinality({i \in 1..Len(errors) : errors[i].theme = n}) = 1
    /\ \A i \in 1..Len(errors) : errors[i].theme \in Failed

\* C3: the list of names the loop iterates over holds no name twice.
C3_NoDuplicateNames ==
  pc \in {"extracting", "candidates", "theme", "resolved", "rejected"}
    => NoDup(allThemes)

\* C4: after the CSS file was read, the working list is the explicit names,
\* then the referenced names, then the inline names, each name kept at its
\* first occurrence only.
C4_FirstSeenOrder ==
  pc = "announce" =>
    allThemes = Dedup(themes \o themeNames \o namesOf(inlineThemes))

\* the blocks of the CSS file that define a theme inline
Defining(n) ==
  {i \in 1..Len(cssFile.blocks) :
     /\ cssFile.blocks[i].name = n
     /\ cssFile.blocks[i].styles # <<>>}

InlineNames == {n \in Names : readCss /\ cssFile.exists /\ Defining(n) # {}}

LastBlock(n) ==
  cssFile.blocks[CHOOSE i \in Defining(n) : \A j \in Defining(n) : j <= i]

\* C5: a name with an inline definition in the parsed CSS is never handed
\* to the module resolver, whatever other source names it too, and once the
\* loop has passed it the collection holds its inline styles.
C5_InlineShortCircuits ==
  /\ InExtract => allThemes[idx] \notin InlineNames
  /\ \A i \in 1..Len(processed) :
       processed[i][1] \in InlineNames =>
         /\ processed[i][2] = "inline"
         /\ Has(result, processed[i][1])
         /\ Get(result, processed[i][1])
              = convertStyles(LastBlock(processed[i][1]).styles)
  /\ pc \in {"extracting", "write", "done"} =>
       \A n \in InlineNames : n \in Range(allThemes)

C5_Witness ==
  /\ pc = "done"
  /\ \E n \in InlineNames :
       /\ n \in Range(themes)
       /\ \E p \in DOMAIN disk : p[1] = n /\ disk[p].kind = "function"
       /\ Has(output, n)
       /\ Get(output, n) = convertStyles(LastBlock(n).styles)
  /\ \E i \in 1..Len(processed) : processed[i][2] = "failed"

IsFailure(outcome) == outcome \in {"importThrew", "notFunction", "threw"}

FailuresTried == Cardinality({j \in 1..Len(tried) : IsFailure(tried[j][2])})

\* the object that holds, for every key passed to addBase, the value of the
\* last call that passed it, the keys in the order they were first passed
RECURSIVE keysInOrder(_)
keysInOrder(bases) ==
  IF bases = <<>> THEN <<>>
  ELSE keysInOrder(SubSeq(bases, 1, Len(bases) - 1))
         \o [i \in 1..Len(bases[Len(bases)]) |-> bases[Len(bases)][i][1]]

LastCallWith(bases, k) ==
  bases[CHOOSE c \in 1..Len(bases) :
          /\ Has(bases[c], k)
          /\ \A d \in 1..Len(bases) : Has(bases[d], k) => d <= c]

LastWins(bases) ==
  LET ks == Dedup(keysInOrder(bases))
  IN [i \in 1..Len(ks) |-> <<ks[i], Get(LastCallWith(bases, ks[i]), ks[i])>>]

\* C6: extractThemeData returns the converted styles of the first candidate
\* that loads, exports a function and runs without throwing: the candidates
\* are loaded in list order, every one before the successful one failed,
\* and after a success no further candidate is loaded or invoked.
C6_FirstSuccessWins ==
  InExtract =>
    /\ \A j \in 1..Len(tried) :
         /\ tried[j][1] = existingPaths[j]
         /\ tried[j][2] = "ok" => j = Len(tried) /\ pc = "resolved"
    /\ \A j \in 1..Len(invoked) :
         \E k \in 1..Len(existingPaths) :
           /\ existingPaths[k] = invoked[j]
           /\ k <= pathIdx
    /\ pc = "resolved" =>
         /\ Len(tried) = pathIdx
         /\ tried[Len(tried)][2] = "ok"
         /\ invoked[Len(invoked)] = existingPaths[pathIdx]
         /\ themeData = convertStyles(LastWins(calls))

C6_Witness ==
  /\ pc = "resolved"
  /\ Len(existingPaths) > Len(tried)
  /\ disk[existingPaths[Len(existingPaths)]].kind = "function"

\* C7: a candidate that throws while loading or running, or that exports no
\* function, raises nothing to the caller: the call moves to the candidate
\* after it, and the call is rejected only when no candidate is left.
C7_FailuresSwallowed ==
  InExtract =>
    /\ pathIdx = FailuresTried + 1
    /\ pc = "rejected" => pathIdx > Len(existingPaths)
    /\ pc \in {"theme", "resolved"} => pathIdx <= Len(existingPaths)
    /\ errors = errorsOf(processed)

C7_Witness ==
  /\ pc = "resolved"
  /\ Len(tried) = 2
  /\ IsFailure(tried[1][2])

\* C8: extractThemeData fails, with the not-found message that names the
\* theme, exactly when no candidate exists on disk or every existing
\* candidate failed; it returns a style map exactly when one succeeded.
C8_NotFoundIffAllFail ==
  /\ pc = "rejected" =>
       /\ thrown = notFoundMessage(allThemes[idx])
       /\ thrown[2] = allThemes[idx]
       /\ themeData = <<>>
       /\ Len(tried) = Len(existingPaths)
       /\ \A j \in 1..Len(tried) : IsFailure(tried[j][2])
       /\ \A p \in DOMAIN disk :
            p[1] = allThemes[idx] /\ p \in Range(uniquePaths(p[1], cwdResolve,
                                                             scriptResolve))
              => \E j \in 1..Len(tried) : tried[j][1] = p
  /\ pc = "resolved" =>
       /\ thrown = <<>>
       /\ \E j \in 1..Len(tried) : tried[j][2] = "ok"

C8_Witness ==
  /\ pc = "rejected"
  /\ Len(tried) = 2

\* priority of a candidate location: the position of its first occurrence
\* in the list of locations the call probes (0 when it is not probed)
Priority(p, parentLayouts) ==
  IF p[2] = "cwd" THEN p[3]
  ELSE IF p[2] = "parent" /\ p[3] \in parentLayouts THEN 4 + p[3]
  ELSE IF p[2] = cwdResolve THEN 8 + p[3]
  ELSE IF p[2] = scriptResolve THEN 12 + p[3]
  ELSE 0

CandidatesInPriorityOrder(parentLayouts) ==
  InExtract =>
    /\ NoDup(existingPaths)
    /\ Range(existingPaths) =
         {p \in DOMAIN disk :
            p[1] = allThemes[idx] /\ Priority(p, parentLayouts) > 0}
    /\ \A i, j \in 1..Len(existingPaths) :
         i < j => Priority(existingPaths[i], parentLayouts)
                    < Priority(existingPaths[j], parentLayouts)
    /\ \A j \in 1..Len(tried) : tried[j][1] = existingPaths[j]

\* C9 as stated: the candidates are the four layouts under the working
\* directory, the four layouts one level up, the four under the package
\* found through the manifest and the four under the package found from the
\* tool, without duplicates, those on disk only, tried in that order.
C9_FourLayoutsEverywhere == CandidatesInPriorityOrder({1, 2, 3, 4})

\* C9 amended: one level up only the layouts theme/<name>/index.js and
\* dist/theme/<name>/index.js are candidates.
C9_TwoLayoutsInParent == CandidatesInPriorityOrder({1, 2})

C9_Witness ==
  /\ pc = "resolved"
  /\ Len(existingPaths) = 2
  /\ cwdResolve = "global"
  /\ scriptResolve = "parent"
  /\ existingPaths[1][2] = "global"
  /\ existingPaths[2] = Path("a", "parent", 3)

\* C10: the function of the successful candidate is invoked once, and the
\* returned map is the converted merge of the objects passed to addBase,
\* a key passed in several calls having the value of the last of them.
C10_LastAddBaseWins ==
  pc = "resolved" =>
    /\ Cardinality({j \in 1..Len(invoked) :
                      invoked[j] = existingPaths[pathIdx]}) = 1
    /\ Keys(extractedStyles) = UNION {Keys(calls[c]) : c \in 1..Len(calls)}
    /\ \A k \in Keys(extractedStyles) :
         Get(extractedStyles, k) = Get(LastCallWith(calls, k), k)
    /\ themeData = convertStyles(extractedStyles)
    /\ Keys(themeData) = {cleanKey(k) : k \in Keys(extractedStyles)}

C10_Witness ==
  /\ pc = "resolved"
  /\ Len(calls) = 2
  /\ Has(calls[1], KColorP) /\ Has(calls[2], KColorP)
  /\ Get(calls[1], KColorP) # Get(calls[2], KColorP)
  /\ Get(themeData, <<"p">>) = Str(VHexF)

\* C11: when --read-css is given and the CSS file does not exist, the run
\* ends with exit code 1 straight from the read-CSS block: no name was
\* parsed out of the file, no name was resolved or looked up, no error entry
\* was recorded, and nothing was written or summarised.
C11_MissingCssIsFatal ==
  (readCss /\ ~cssFile.exists) =>
    /\ pc \in {"parseArguments", "readCss", "exit"}
    /\ pc = "exit" => exitCode = 1
    /\ themeNames = <<>> /\ inlineThemes = <<>> /\ inlineThemeMap = <<>>
    /\ processed = <<>> /\ tried = <<>> /\ existingPaths = <<>>
    /\ errors = <<>>
    /\ result = <<>> /\ output = NotWritten /\ reported = NotReported

C11_Witness ==
  /\ readCss /\ ~cssFile.exists
  /\ pc = "exit"
  /\ Len(themes) > 0

\* C12: names that failed do not keep the run from its end: the run exits
\* inside or before the loop only when nothing was processed, the file that
\* is written holds exactly the names that succeeded, the exit code is 0,
\* and the failures are listed by the summary, which is printed only once
\* the file has been written.
C12_PartialSuccessWritten ==
  /\ pc = "done" =>
       /\ exitCode = 0
       /\ output = result
       /\ Keys(output) = Succeeded
       /\ Keys(output) \cap Failed = {}
       /\ reported = errors
       /\ {reported[i].theme : i \in 1..Len(reported)} = Failed
  /\ pc # "done" => output = NotWritten /\ reported = NotReported
  /\ (pc = "exit" /\ Failed # {}) => idx > Len(allThemes)

C12_Witness ==
  /\ pc = "done"
  /\ Failed # {}
  /\ Succeeded # {}
  /\ output # <<>>
  /\ reported # <<>>

\* C13: the names are resolved one at a time in working-list order: while
\* a resolution is in progress every earlier position of the list has been
\* finished and no later one has been started, all candidates the call
\* holds or has loaded belong to the name at the loop position, and between
\* two loop bodies no resolution is in progress.
C13_OneResolutionAtATime ==
  /\ InExtract =>
       /\ idx <= Len(allThemes)
       /\ Len(processed) = idx - 1
       /\ \A i \in 1..Len(processed) : processed[i][1] = allThemes[i]
       /\ \A j \in 1..Len(existingPaths) :
            existingPaths[j][1] = allThemes[idx]
       /\ \A j \in 1..Len(tried) : tried[j][1][1] = allThemes[idx]
       /\ \A j \in 1..Len(invoked) : invoked[j][1] = allThemes[idx]
  /\ ~InExtract =>
       /\ existingPaths = <<>> /\ tried = <<>> /\ invoked = <<>>
       /\ calls = <<>> /\ extractedStyles = <<>>
       /\ themeData = <<>> /\ thrown = <<>>

C13_Witness ==
  /\ InExtract
  /\ idx = 2
  /\ Len(tried) > 0
  /\ allThemes[1] # allThemes[2]
  /\ processed[1][2] \in {"resolved", "failed"}

\* the inline blocks of the CSS file that yield a record
Recorded ==
  SelectSeq(cssFile.blocks, LAMBDA b : b.name # "" /\ b.styles # <<>>)

\* the conversions whose input and output the state shows: the one of the
\* resolution that has just succeeded, those of the inline blocks just read
Conversions ==
  (IF pc = "resolved" THEN {<<extractedStyles, themeData>>} ELSE {})
    \cup (IF pc = "announce"
          THEN {<<Recorded[i].styles, inlineThemes[i].styles>> :
                  i \in 1..Len(inlineThemes)}
          ELSE {})

\* property i of raw is the last one stored under its cleaned key
StoredLast(raw, i) ==
  \A j \in (i + 1)..Len(raw) : cleanKey(raw[j][1]) # cleanKey(raw[i][1])

\* C14: a string value that contains oklch(, rgb(, hsl( or lch( is stored
\* as a string under its cleaned key: the hex string of the color library
\* when the library returns one, the value itself when the library throws
\* or returns nothing; the conversion of the object does not fail.
C14_CandidateHexOrUnchanged ==
  \A c \in Conversions :
    \A i \in 1..Len(c[1]) :
      LET key == c[1][i][1]
          value == c[1][i][2]
      IN IsColorCandidate(value) =>
           /\ Has(c[2], cleanKey(key))
           /\ StoredLast(c[1], i) =>
                LET out == Get(c[2], cleanKey(key))
                    r == formatHex(value.v)
                IN /\ out.kind = "string"
                   /\ out.v # <<>>
                   /\ (~r.threw /\ r.hex # <<>>) => out.v = r.hex
                   /\ (r.threw \/ r.hex = <<>>) => out.v = value.v

C14_Witness ==
  /\ pc = "resolved"
  /\ Len(extractedStyles) = 2
  /\ {extractedStyles[1][2], extractedStyles[2][2]}
       \in {{Str(VHslErr), Str(VRgbBad)}, {Str(VOklch), Str(VRgbBad)},
            {Str(VOklch), Str(VHslErr)}}
  /\ Len(themeData) = 2

\* C15: a value that is not a color candidate (a string without any of the
\* four notations, even one the color library could convert, a number, a
\* nested object) is stored under its cleaned key as it is.
C15_OthersPassThrough ==
  \A c \in Conversions :
    \A i \in 1..Len(c[1]) :
      LET key == c[1][i][1]
          value == c[1][i][2]
      IN ~IsColorCandidate(value) =>
           /\ Has(c[2], cleanKey(key))
           /\ StoredLast(c[1], i) => Get(c[2], cleanKey(key)) = value

C15_Witness ==
  /\ pc = "resolved"
  /\ Len(extractedStyles) = 2
  /\ extractedStyles[1][2] = Str(VRed)
  /\ extractedStyles[2][2].kind \in {"number", "object"}
  /\ Len(themeData) = 2

\* the keys cleaned by the conversions the state shows
CleanedKeys == UNION {Keys(c[1]) : c \in Conversions}

\* C16 as stated: cleaning a cleaned key changes nothing, for every key.
C16_CleanIdempotent ==
  \A k \in CleanedKeys : cleanKey(cleanKey(k)) = cleanKey(k)

\* C16 amended: cleaning removes one prefix; cleaning a cleaned key changes
\* nothing unless what followed the removed prefix starts with -- again,
\* and then the second cleaning removes that prefix.
C16_CleanIdempotentSinglePrefix ==
  \A k \in CleanedKeys :
    LET once == cleanKey(k)
    IN IF StartsWith(once, PVar)
       THEN /\ StartsWith(k, PVar)
            /\ Len(cleanKey(once)) < Len(once)
       ELSE cleanKey(once) = once

C16_Witness ==
  /\ pc = "resolved"
  /\ KDashes \in CleanedKeys
  /\ KColorP \in CleanedKeys

\* C17 as stated: no key of a converted style map starts with --.
C17_NoPrefixLeft ==
  \A c \in Conversions :
    \A k \in Keys(c[2]) : ~StartsWith(k, PVar) /\ ~StartsWith(k, PColor)

\* C17 amended: every key of a converted style map is a raw key without
\* its one leading prefix, and it starts with -- only when the raw key had
\* -- again right after that prefix.
C17_OnePrefixRemoved ==
  \A c \in Conversions :
    /\ Keys(c[2]) = {cleanKey(k) : k \in Keys(c[1])}
    /\ \A k \in Keys(c[1]) :
         /\ StartsWith(k, PColor) => PColor \o cleanKey(k) = k
         /\ (StartsWith(k, PVar) /\ ~StartsWith(k, PColor))
              => PVar \o cleanKey(k) = k
         /\ ~StartsWith(k, PVar) => cleanKey(k) = k
    /\ \A k \in Keys(c[2]) :
         StartsWith(k, PVar) =>
           \E raw \in Keys(c[1]) :
             StartsWith(raw, PVar \o PVar) \/ StartsWith(raw, PColor \o PVar)

C17_Witness ==
  /\ pc = "announce"
  /\ Len(inlineThemes) = 1
  /\ Keys(Recorded[1].styles) = {KDashes, KColorP}
  /\ Keys(inlineThemes[1].styles) = {KVarP, KPlain}

\* the names written in the well-formed reference blocks of the CSS file
Written == SelectSeq(cssFile.refs, LAMBDA n : n # "")

FirstIndex(list, x) == Least({i \in 1..Len(list) : list[i] = x})

\* C18: for a CSS file whose reference blocks are well formed the scan
\* returns the names written in the blocks, blocks and items taken left to
\* right: no name twice, every written name once, and the names in the
\* order of their first occurrence in the file.
C18_MatchOrderDeduplicated ==
  /\ pc = "announce" => NoDup(themeNames)
  /\ (pc = "announce" /\ cssFile.shape = "wellFormed") =>
    /\ Range(themeNames) = Range(Written)
    /\ \A i, j \in 1..Len(themeNames) :
         i < j => FirstIndex(Written, themeNames[i])
                    < FirstIndex(Written, themeNames[j])
    /\ themeNames = Dedup(Written)

C18_Witness ==
  /\ pc = "announce"
  /\ cssFile.shape = "wellFormed"
  /\ cssFile.refs = <<"a", "c", "b", "a">>
  /\ themeNames = <<"a", "c", "b">>

\* C19: every returned name is the text of an item without the whitespace
\* around it and without what follows its first whitespace-then-flag
\* marker: it is not empty, it is the name the item was written for, and
\* the text of an item with its whitespace or its flags is never returned;
\* every item that has a name left yields it.
C19_ItemsTrimmedAndCut ==
  (pc = "announce" /\ cssFile.shape = "wellFormed") =>
    /\ \A i \in 1..Len(themeNames) :
         /\ themeNames[i] # ""
         /\ themeNames[i] \in Range(cssFile.refs)
         /\ \A it \in ItemChoices :
              /\ Join(it.tokens) # it.name => themeNames[i] # Join(it.tokens)
              /\ Join(trim(it.tokens)) # it.name
                   => themeNames[i] # Join(trim(it.tokens))
    /\ \A n \in Range(cssFile.refs) : n # "" => n \in Range(themeNames)

C19_Witness ==
  /\ pc = "announce"
  /\ cssFile.shape = "wellFormed"
  /\ cssFile.refs = <<"c", "">>
  /\ themeNames = <<"c">>
  /\ \E i \in 1..Len(cssFile.text) : cssFile.text[i] = TFlag2

\* C20: a reference block that is not well formed (no directive, no
\* closing brace, or a themes: value that is not ended by ; inside the
\* block) contributes no name: the scan returns only the names of the
\* well-formed blocks of the file, the empty list when there is none.
C20_MalformedGivesNothing ==
  (pc = "announce" /\ cssFile.shape # "wellFormed") =>
    themeNames = Dedup(Written)

\* C21: an inline block yields a record only when it has a name and at
\* least one stored property: every record has a non-empty name and a
\* non-empty style map, the records are those of the blocks written with
\* both, in block order, and a dropped block ends nothing: the run exits
\* after an existing CSS file was read only once the loop is over.
C21_RecordNeedsNameAndStyles ==
  /\ pc = "announce" =>
       /\ \A i \in 1..Len(inlineThemes) :
            inlineThemes[i].name # "" /\ inlineThemes[i].styles # <<>>
       /\ namesOf(inlineThemes) = namesOf(Recorded)
       /\ errors = <<>>
  /\ (readCss /\ cssFile.exists /\ pc = "exit") => idx > Len(allThemes)

C21_Witness ==
  /\ pc = "announce"
  /\ Len(cssFile.blocks) = 2
  /\ cssFile.blocks[1].name = ""
  /\ cssFile.blocks[1].styles # <<>>
  /\ namesOf(inlineThemes) = <<"c">>

\* C22: the record of a block has the name of the block's last name
\* property and, as styles, the conversion of the block's properties whose
\* key starts with -- or is color-scheme; name and any other key are not
\* keys of the style map.
C22_OnlyVariablesStored ==
  pc = "announce" =>
    /\ Len(inlineThemes) = Len(Recorded)
    /\ \A i \in 1..Len(inlineThemes) :
         /\ inlineThemes[i].name = Recorded[i].name
         /\ inlineThemes[i].styles = convertStyles(Recorded[i].styles)
         /\ Keys(inlineThemes[i].styles) \cap {CName, CDefault} = {}

C22_Witness ==
  /\ pc = "announce"
  /\ Len(cssFile.blocks) = 1
  /\ Len(cssFile.blocks[1].lines) = 3
  /\ trim(cssFile.blocks[1].lines[1]) = CName \o <<":", TWs, "a", ";">>
  /\ StartsWith(trim(cssFile.blocks[1].lines[2]), CName)
  /\ inlineThemes = <<[name |-> "c", styles |-> << <<KPlain, Str(VHex1)>> >>]>>

\* a line with a semicolon after its property, nothing for a blank line or
\* a comment line
Canon(line) ==
  IF \E l \in LineChoices : l.chars = line
  THEN (CHOOSE l \in LineChoices : l.chars = line).canon
  ELSE line

CanonBlock(b) ==
  [b EXCEPT !.lines = SelectSeq([i \in 1..Len(b.lines) |-> Canon(b.lines[i])],
                                LAMBDA l : l # <<>>)]

\* C23: the records of the CSS file are those of the file in which every
\* block has lost its blank lines and its lines that begin with // or /*
\* and every property line ends with a semicolon.
C23_SemicolonAndCommentsIrrelevant ==
  pc = "announce" =>
    inlineThemes =
      inlineRecords([i \in 1..Len(cssFile.blocks) |->
                       CanonBlock(cssFile.blocks[i])])

C23_Witness ==
  /\ pc = "announce"
  /\ Len(inlineThemes) = 1
  /\ Len(cssFile.blocks) = 1
  /\ Len(cssFile.blocks[1].lines) = 3
  /\ \A i \in 1..3 : cssFile.blocks[1].lines[i] # Canon(cssFile.blocks[1].lines[i])
  /\ StartsWith(trim(cssFile.blocks[1].lines[2]), CLineComment)

\* the names the loop has stored, each at its first store
StoredInOrder ==
  Dedup(SelectSeq([i \in 1..Len(processed) |->
                     IF FailedAt(i) THEN "" ELSE processed[i][1]],
                  LAMBDA n : n # ""))

\* C24: the keys of the written collection are, in this order, the names
\* of the working list that succeeded.
C24_KeysInResolutionOrder ==
  pc = "done" =>
    [i \in 1..Len(output) |-> output[i][1]] = StoredInOrder

\* C25: a run without --read-css whose explicit list holds no name ends in
\* parseArguments with exit code 1: nothing is resolved, recorded or
\* written; with --read-css the same list does not end the run there.
C25_NoThemesNoCssIsFatal ==
  /\ (~readCss /\ parseThemes(themesInput) = <<>> /\ pc # "parseArguments") =>
       /\ pc = "exit" /\ exitCode = 1
       /\ allThemes = <<>> /\ processed = <<>>
       /\ tried = <<>> /\ invoked = <<>>
       /\ errors = <<>> /\ result = <<>>
       /\ output = NotWritten /\ reported = NotReported
  /\ (readCss /\ parseThemes(themesInput) = <<>> /\ cssFile.exists
        /\ pc = "exit") => idx > Len(allThemes)

C25_Witness ==
  /\ ~readCss
  /\ Len(themesInput) = 2
  /\ pc = "exit"
  /\ themes = <<>>

\* the last position at which the loop stored styles for name n
LastStore(n) ==
  Greatest({i \in 1..Len(processed) : processed[i][1] = n /\ ~FailedAt(i)})

\* C26: a name written more than once is kept once, with the styles of
\* its last write: the inline map holds for each name the styles of the
\* last record of that name, and the written collection holds each name
\* once, with the styles the loop stored for it last.
C26_LastWriteWins ==
  /\ pc = "announce" =>
       /\ NoDup([i \in 1..Len(inlineThemeMap) |-> inlineThemeMap[i][1]])
       /\ Keys(inlineThemeMap) = Range(namesOf(inlineThemes))
       /\ \A i \in 1..Len(inlineThemes) :
            (\A j \in (i + 1)..Len(inlineThemes) :
               inlineThemes[j].name # inlineThemes[i].name)
              => Get(inlineThemeMap, inlineThemes[i].name)
                   = inlineThemes[i].styles
  /\ pc = "done" =>
       /\ NoDup([i \in 1..Len(output) |-> output[i][1]])
       /\ \A n \in Keys(output) : Get(output, n) = processed[LastStore(n)][3]

C26_Witness ==
  /\ pc = "done"
  /\ Len(cssFile.blocks) = 2
  /\ cssFile.blocks[1].name = "c" /\ cssFile.blocks[2].name = "c"
  /\ cssFile.blocks[1].styles = I1 /\ cssFile.blocks[2].styles = I2
  /\ Len(themes) = 2 /\ themes[1] = themes[2]
  /\ Get(output, "c") = convertStyles(I2)

\* { ...{ ...{}, ...bases[1] }, ...bases[2] } ...
RECURSIVE mergedBases(_)
mergedBases(bases) ==
  IF bases = <<>> THEN <<>>
  ELSE Spread(mergedBases(SubSeq(bases, 1, Len(bases) - 1)),
              bases[Len(bases)])

\* C27: the map a call returns is made of the objects the successful
\* candidate passed to addBase and of nothing else: what a candidate
\* passed before it threw is not in it.
C27_AccumulatorPerCandidate ==
  pc = "resolved" =>
    LET module == disk[tried[Len(tried)][1]]
    IN /\ extractedStyles = mergedBases(module.bases)
       /\ themeData = convertStyles(mergedBases(module.bases))

C27_Witness ==
  /\ pc = "resolved"
  /\ Len(tried) = 2
  /\ tried[1][2] = "threw"
  /\ disk[tried[1][1]].bases = <<B2>>
  /\ disk[tried[2][1]].bases = <<B1>>
  /\ ~Has(themeData, <<"r">>)

\* C28: a theme function that returns without a call of addBase makes the
\* call return the empty map, and the loop stores it like any other: the
\* name is in the written collection with empty styles and has no error
\* entry.
C28_EmptyStylesIsSuccess ==
  /\ (pc = "resolved" /\ disk[tried[Len(tried)][1]].bases = <<>>) =>
       themeData = <<>>
  /\ \A i \in 1..Len(processed) :
       (processed[i][2] = "resolved" /\ processed[i][3] = <<>>) =>
         /\ Has(result, processed[i][1])
         /\ \A e \in 1..Len(errors) : errors[e].theme # processed[i][1]
         /\ pc = "done" => /\ Has(output, processed[i][1])
                           /\ Get(output, processed[i][1]) = <<>>
  /\ \A i \in 1..Len(processed) :
       processed[i][2] = "failed" =>
         \A p \in DOMAIN disk :
           (p[1] = processed[i][1] /\ p[2] = "cwd") =>
             ~(disk[p].kind = "function" /\ disk[p].ends = "returns")

C28_Witness ==
  /\ pc = "done"
  /\ output = << <<"a", <<>>>> >>
  /\ errors = <<>>
  /\ reported = <<>>

Terminated == pc \in {"done", "exit"}

\* C29: the run terminates. Every position of the working list is
\* processed once and in order, no candidate of a call is loaded twice,
\* and the run reaches the written output or a fatal exit.
C29_RunTerminates ==
  /\ [](/\ Len(processed) = idx - 1
        /\ \A i \in 1..Len(processed) : processed[i][1] = allThemes[i]
        /\ NoDup([i \in 1..Len(tried) |-> tried[i][1]])
        /\ NoDup(invoked)
        /\ Len(tried) <= Len(existingPaths))
  /\ <>Terminated

C29_Witness ==
  /\ pc = "done"
  /\ Len(processed) = 2
  /\ processed[1][2] = "failed"
  /\ processed[2][2] = "resolved"
  /\ Len(reported) = 1

====
